---- MODULE Spec2Model ----
(***************************************************************************)
(* State-machine model of the user-list CRUD page: the UserList component  *)
(* (record store, pagination, fetch/add/edit/delete), the UserForm         *)
(* component (draft, validation, create/update request) and the requests   *)
(* in flight between them and the REST API.                                *)
(*                                                                         *)
(* React function components close over the state of the render in which   *)
(* a handler was created.  An async handler (handleDeleteUser) or a        *)
(* promise callback (handleSubmit's .then) therefore works, after its      *)
(* await, on the `users` and `selectedUser` of the render in which the     *)
(* click happened.  Each request in flight carries that captured state.    *)
(***************************************************************************)
EXTENDS Integers, Sequences, FiniteSets, Bags, TLC

\* ------------------------------------------------------------------ bounds
MaxRequests == 2    \* DELETE, POST and PUT requests issued in one session
MaxPage == 2        \* past the last page, Next is not clicked beyond this page
MaxTotal == 53      \* longest collection of the pagination specification
MaxNameLen == 5     \* longest name of the row specification

\* ------------------------------------------------------- program constants
usersPerPage == 13

\* Math.max() of no arguments is -Infinity, and -Infinity + 1 is -Infinity.
\* -Infinity is represented by an integer below every id the server assigns.
NegInf == -1

\* null as the value of selectedUser
Null == [null |-> TRUE]

\* null as the value of an error state, which otherwise holds a message
NoError == "null"

\* ------------------------------------------------------------ input sets
\* What the user types into the form: the name can be cleared or replaced,
\* the email and the department are typed in.  A draft starts with every field
\* empty (add) or with the fields of the selected record (edit).
NameValues == {"", "Bob Ray"}
EmailValues == {"a@x.com"}
CompanyValues == {"Eng"}
ErrMessages == {"Network Error"}
ServerIds == {11}

MkUser(i, n) == [id |-> i, name |-> n, email |-> "a@x.com", company |-> [name |-> "Eng"]]

\* The bodies GET /users may return: id-unique sequences with integer ids.
LoadResponses ==
    { <<MkUser(1, "Ann Lee")>>,
      <<MkUser(1, "Ann Lee"), MkUser(2, "Ann Lee")>> }

VARIABLES
    users,          \* UserList: useState([])
    error,          \* UserList: useState(null)
    showForm,       \* UserList: useState(false)
    selectedUser,   \* UserList: useState(null)
    currentPage,    \* UserList: useState(1)
    formData,       \* UserForm: draft of the mounted form
    formError,      \* UserForm: useState(null)
    loadPending,    \* GET /users issued by the mount effect, not yet settled
    deletes,        \* DELETE requests in flight, each with its captured users
    submits,        \* POST/PUT requests in flight, each with its captured state
    requests,       \* number of DELETE, POST and PUT requests issued so far
    toasts,         \* notifications emitted by the handler that ran last
    lastOp          \* the handler that ran last, with its arguments

vars == <<users, error, showForm, selectedUser, currentPage, formData,
          formError, loadPending, deletes, submits, requests, toasts, lastOp>>

\* ------------------------------------------------------------- helpers
Ids(us) == {us[i].id : i \in 1..Len(us)}

RECURSIVE SetMax(_)
SetMax(S) ==
    IF S = {} THEN NegInf
    ELSE LET x == CHOOSE y \in S : TRUE
             m == SetMax(S \ {x})
         IN IF x > m THEN x ELSE m

\* Math.max(...users.map(u => u.id))
MathMax(us) == SetMax(Ids(us))

\* x + 1 in floating point: -Infinity + 1 is -Infinity
PlusOne(x) == IF x = NegInf THEN NegInf ELSE x + 1

\* Math.ceil(n / d) for n >= 0, d > 0
Ceil(n, d) == (n + d - 1) \div d

Min(a, b) == IF a < b THEN a ELSE b

\* Array.prototype.slice(begin, end) for 0 <= begin: end is clamped to the
\* length, and an empty array results when begin is at or past the end.
Slice(us, begin, end) ==
    LET e == Min(end, Len(us))
    IN IF begin >= e THEN <<>> ELSE [i \in 1..(e - begin) |-> us[begin + i]]

\* Array.prototype.filter
RECURSIVE Filter(_, _)
Filter(us, id) ==
    IF us = <<>> THEN <<>>
    ELSE IF Head(us).id # id THEN <<Head(us)>> \o Filter(Tail(us), id)
         ELSE Filter(Tail(us), id)

EmptyDraft == [name |-> "", email |-> "", company |-> [name |-> ""]]

\* UserForm's useState initialiser
InitialFormData(sel) ==
    IF sel # Null
    THEN [name |-> sel.name, email |-> sel.email, company |-> [name |-> sel.company.name]]
    ELSE EmptyDraft

\* A validation test that forgets the department
InvalidIgnoringCompany(fd) == fd.name = "" \/ fd.email = ""

\* handleSubmit's validation test
Invalid(fd) == fd.name = "" \/ fd.email = "" \/ fd.company.name = ""

\* const method = selectedUser ? 'put' : 'post'
Method(sel) == IF sel # Null THEN "put" ELSE "post"

\* the request's endpoint below config.endpoint
Endpoint(sel) == IF sel # Null THEN <<"users", sel.id>> ELSE <<"users">>

\* users.map(u => (u.id === user.id ? user : u))
MapReplace(us, user) ==
    [i \in 1..Len(us) |-> IF us[i].id = user.id THEN user ELSE us[i]]

\* { ...user, id: Math.max(...users.map(u => u.id)) + 1 }
NewUser(us, user) == [user EXCEPT !.id = PlusOne(MathMax(us))]

\* The array handleAddOrEditUser passes to setUsers, computed from the users
\* and selectedUser of the render its closure belongs to.
AddOrEditUsers(us, sel, user) ==
    IF sel # Null THEN MapReplace(us, user) ELSE Append(us, NewUser(us, user))

\* The rows of the table: users.slice(indexOfFirstUser, indexOfLastUser)
indexOfLastUser(page) == page * usersPerPage

\* A first index that is one row late
indexOfFirstUserOffByOne(page) == indexOfLastUser(page) - usersPerPage + 1

indexOfFirstUser(page) == indexOfLastUser(page) - usersPerPage
currentUsers == Slice(users, indexOfFirstUser(currentPage), indexOfLastUser(currentPage))

\* disabled attributes of the pagination buttons
PrevDisabled == currentPage = 1
NextDisabled == currentPage = Ceil(Len(users), usersPerPage)

\* Requests in flight form a bag: the order of issue decides nothing, any
\* of them may settle next, and two equal requests are two requests.
Issue(reqs, r) == reqs (+) SetToBag({r})
Settle(reqs, r) == reqs (-) SetToBag({r})

\* Unmounting the form: state updates that requests issued by that form
\* instance make later on its own state (setFormData, setError) reach nothing.
Orphan(reqs) ==
    LET dead(r) == [r EXCEPT !.live = FALSE]
        alive(r) == [r EXCEPT !.live = TRUE]
    IN [o \in {dead(r) : r \in BagToSet(reqs)} |->
            CopiesIn(o, reqs) + CopiesIn(alive(o), reqs)]

Init ==
    /\ users = <<>>
    /\ error = NoError
    /\ showForm = FALSE
    /\ selectedUser = Null
    /\ currentPage = 1
    /\ formData = EmptyDraft
    /\ formError = NoError
    /\ loadPending = TRUE
    /\ deletes = EmptyBag
    /\ submits = EmptyBag
    /\ requests = 0
    /\ toasts = <<>>
    /\ lastOp = [op |-> "mount"]

\* fetchUsers, success branch
LoadOk ==
    /\ loadPending
    /\ \E data \in LoadResponses :
        /\ users' = data
        /\ lastOp' = [op |-> "loadOk", data |-> data]
    /\ loadPending' = FALSE
    /\ toasts' = <<>>
    /\ UNCHANGED <<error, showForm, selectedUser, currentPage, formData,
                   formError, deletes, submits, requests>>

\* A catch branch that also empties the collection
LoadFailClearing ==
    /\ loadPending
    /\ \E msg \in ErrMessages :
        /\ error' = msg
        /\ lastOp' = [op |-> "loadFail", msg |-> msg]
    /\ users' = <<>>
    /\ loadPending' = FALSE
    /\ toasts' = <<[kind |-> "error", text |-> "Failed to fetch users."]>>
    /\ UNCHANGED <<showForm, selectedUser, currentPage, formData,
                   formError, deletes, submits, requests>>

\* fetchUsers, catch branch
LoadFail ==
    /\ loadPending
    /\ \E msg \in ErrMessages :
        /\ error' = msg
        /\ lastOp' = [op |-> "loadFail", msg |-> msg]
    /\ loadPending' = FALSE
    /\ toasts' = <<[kind |-> "error", text |-> "Failed to fetch users."]>>
    /\ UNCHANGED <<users, showForm, selectedUser, currentPage, formData,
                   formError, deletes, submits, requests>>

\* onClick of the Add User button
BeginAdd ==
    /\ selectedUser' = Null
    /\ showForm' = TRUE
    /\ IF showForm
       THEN UNCHANGED <<formData, formError>>
       ELSE /\ formData' = InitialFormData(Null)
            /\ formError' = NoError
    /\ toasts' = <<>>
    /\ lastOp' = [op |-> "beginAdd"]
    /\ UNCHANGED <<users, error, currentPage, loadPending, deletes, submits, requests>>

\* A handleEditUser that forgets setShowForm(true)
handleEditUserWithoutOpening(userData) ==
    /\ selectedUser' = userData
    /\ IF showForm
       THEN \E changed \in BOOLEAN :
                /\ (userData # selectedUser) => changed
                /\ formData' = IF changed THEN InitialFormData(userData) ELSE formData
       ELSE UNCHANGED formData
    /\ toasts' = <<>>
    /\ lastOp' = [op |-> "beginEdit", user |-> userData]
    /\ UNCHANGED <<users, error, showForm, currentPage, formError, loadPending,
                   deletes, submits, requests>>

\* handleEditUser, called by the Edit button of a visible row.  A mounted
\* form re-reads the record when the selectedUser reference changed; a record
\* equal in value may or may not be the same object.
handleEditUser(userData) ==
    /\ selectedUser' = userData
    /\ showForm' = TRUE
    /\ IF showForm
       THEN /\ \E changed \in BOOLEAN :
                /\ (userData # selectedUser) => changed
                /\ formData' = IF changed THEN InitialFormData(userData) ELSE formData
            /\ UNCHANGED formError
       ELSE /\ formData' = InitialFormData(userData)
            /\ formError' = NoError
    /\ toasts' = <<>>
    /\ lastOp' = [op |-> "beginEdit", user |-> userData]
    /\ UNCHANGED <<users, error, currentPage, loadPending, deletes, submits, requests>>

BeginEdit == \E k \in 1..Len(currentUsers) : handleEditUser(currentUsers[k])

\* handleChange and the department input's onChange
Change ==
    /\ showForm
    /\ \/ \E v \in NameValues : formData' = [formData EXCEPT !.name = v]
       \/ \E v \in EmailValues : formData' = [formData EXCEPT !.email = v]
       \/ \E v \in CompanyValues : formData' = [formData EXCEPT !.company = [name |-> v]]
    /\ formData' # formData
    /\ toasts' = <<>>
    /\ lastOp' = [op |-> "other"]
    /\ UNCHANGED <<users, error, showForm, selectedUser, currentPage, formError,
                   loadPending, deletes, submits, requests>>

\* handleSubmit with a draft that fails validation
SubmitInvalid ==
    /\ showForm
    /\ Invalid(formData)
    /\ formError' = "All fields are required."
    /\ toasts' = <<>>
    /\ lastOp' = [op |-> "submitInvalid"]
    /\ UNCHANGED <<users, error, showForm, selectedUser, currentPage, formData,
                   loadPending, deletes, submits, requests>>

\* handleSubmit with a valid draft: the request is issued; its callbacks keep
\* the handleAddOrEditUser of this render, hence this render's users and
\* selectedUser.
SubmitRequest ==
    /\ showForm
    /\ ~Invalid(formData)
    /\ requests < MaxRequests
    /\ requests' = requests + 1
    /\ submits' = Issue(submits,
                    [method |-> Method(selectedUser),
                     endpoint |-> Endpoint(selectedUser),
                     body |-> formData,
                     users |-> users,
                     selectedUser |-> selectedUser,
                     live |-> TRUE])
    /\ toasts' = <<>>
    /\ lastOp' = [op |-> "submit"]
    /\ UNCHANGED <<users, error, showForm, selectedUser, currentPage, formData,
                   formError, loadPending, deletes>>

\* response.data: the server answers a create with the body and an id of its
\* own, an update with the body and the id of the endpoint.
ResponseData(r) ==
    IF r.method = "put"
    THEN {[id |-> r.endpoint[2], name |-> r.body.name, email |-> r.body.email,
           company |-> r.body.company]}
    ELSE {[id |-> sid, name |-> r.body.name, email |-> r.body.email,
           company |-> r.body.company] : sid \in ServerIds}

\* A .then callback that forgets setSelectedUser(null)
SubmitOkKeepingSelection(r) ==
    /\ \E data \in ResponseData(r) :
        /\ users' = AddOrEditUsers(r.users, r.selectedUser, data)
        /\ toasts' = <<[kind |-> "success",
                        text |-> IF r.selectedUser # Null
                                 THEN "User updated successfully!"
                                 ELSE "User added successfully!"]>>
        /\ lastOp' = [op |-> IF r.selectedUser # Null THEN "updateOk" ELSE "createOk",
                      method |-> r.method, captured |-> r.users, data |-> data]
    /\ showForm' = FALSE
    /\ formData' = EmptyDraft
    /\ formError' = NoError
    /\ submits' = Orphan(Settle(submits, r))
    /\ UNCHANGED <<error, selectedUser, currentPage, loadPending, deletes, requests>>

\* A .then callback whose handleAddOrEditUser reads the selection of the
\* latest render instead of the one of the render that issued the request
SubmitOkLatestSelection(r) ==
    /\ \E data \in ResponseData(r) :
        /\ users' = AddOrEditUsers(r.users, selectedUser, data)
        /\ toasts' = <<[kind |-> "success",
                        text |-> IF selectedUser # Null
                                 THEN "User updated successfully!"
                                 ELSE "User added successfully!"]>>
        /\ lastOp' = [op |-> IF selectedUser # Null THEN "updateOk" ELSE "createOk",
                      method |-> r.method, captured |-> r.users, data |-> data]
    /\ showForm' = FALSE
    /\ selectedUser' = Null
    /\ formData' = EmptyDraft
    /\ formError' = NoError
    /\ submits' = Orphan(Settle(submits, r))
    /\ UNCHANGED <<error, currentPage, loadPending, deletes, requests>>

\* handleSubmit's .then callback: handleAddOrEditUser(response.data), then
\* the draft reset, setSelectedUser(null) and setShowForm(false).  lastOp
\* keeps the request's method and the users its closure captured.
SubmitOk(r) ==
    /\ \E data \in ResponseData(r) :
        /\ users' = AddOrEditUsers(r.users, r.selectedUser, data)
        /\ toasts' = <<[kind |-> "success",
                        text |-> IF r.selectedUser # Null
                                 THEN "User updated successfully!"
                                 ELSE "User added successfully!"]>>
        /\ lastOp' = [op |-> IF r.selectedUser # Null THEN "updateOk" ELSE "createOk",
                      method |-> r.method, captured |-> r.users, data |-> data]
    /\ showForm' = FALSE
    /\ selectedUser' = Null
    /\ formData' = EmptyDraft
    /\ formError' = NoError
    /\ submits' = Orphan(Settle(submits, r))
    /\ UNCHANGED <<error, currentPage, loadPending, deletes, requests>>

\* A .catch callback that also closes the form and drops the draft
SubmitFailClosingForm(r) ==
    /\ \E msg \in ErrMessages :
        /\ formError' = NoError
        /\ lastOp' = [op |-> "submitFail", method |-> r.method, body |-> r.body,
                      live |-> r.live, msg |-> msg]
    /\ showForm' = FALSE
    /\ formData' = EmptyDraft
    /\ submits' = Orphan(Settle(submits, r))
    /\ toasts' = <<>>
    /\ UNCHANGED <<users, error, selectedUser, currentPage, loadPending, deletes, requests>>

\* handleSubmit's .catch callback: setError(err.message) on the form instance
\* that issued the request
SubmitFail(r) ==
    /\ \E msg \in ErrMessages :
        /\ formError' = IF r.live THEN msg ELSE formError
        /\ lastOp' = [op |-> "submitFail", method |-> r.method, body |-> r.body,
                      live |-> r.live, msg |-> msg]
    /\ submits' = Settle(submits, r)
    /\ toasts' = <<>>
    /\ UNCHANGED <<users, error, showForm, selectedUser, currentPage, formData,
                   loadPending, deletes, requests>>

\* A handleCancel that forgets setSelectedUser(null)
CancelKeepingSelection ==
    /\ showForm
    /\ showForm' = FALSE
    /\ formData' = EmptyDraft
    /\ formError' = NoError
    /\ submits' = Orphan(submits)
    /\ toasts' = <<>>
    /\ lastOp' = [op |-> "cancel"]
    /\ UNCHANGED <<users, error, selectedUser, currentPage, loadPending, deletes, requests>>

\* handleCancel
Cancel ==
    /\ showForm
    /\ showForm' = FALSE
    /\ selectedUser' = Null
    /\ formData' = EmptyDraft      \* the form unmounts: no draft is left
    /\ formError' = NoError
    /\ submits' = Orphan(submits)
    /\ toasts' = <<>>
    /\ lastOp' = [op |-> "cancel"]
    /\ UNCHANGED <<users, error, currentPage, loadPending, deletes, requests>>

\* A handleDeleteUser that removes the row before the server has answered
handleDeleteUserOptimistic(id) ==
    /\ requests < MaxRequests
    /\ requests' = requests + 1
    /\ users' = Filter(users, id)
    /\ deletes' = Issue(deletes, [id |-> id, users |-> users])
    /\ toasts' = <<>>
    /\ lastOp' = [op |-> "deleteClick", id |-> id]
    /\ UNCHANGED <<error, showForm, selectedUser, currentPage, formData,
                   formError, loadPending, submits>>

\* handleDeleteUser up to its await, called by the Delete button of a visible
\* row: the request is issued and the closure keeps this render's users.
handleDeleteUser(id) ==
    /\ requests < MaxRequests
    /\ requests' = requests + 1
    /\ deletes' = Issue(deletes, [id |-> id, users |-> users])
    /\ toasts' = <<>>
    /\ lastOp' = [op |-> "deleteClick", id |-> id]
    /\ UNCHANGED <<users, error, showForm, selectedUser, currentPage, formData,
                   formError, loadPending, submits>>

DeleteRequest == \E k \in 1..Len(currentUsers) : handleDeleteUser(currentUsers[k].id)

\* handleDeleteUser after its await, success
DeleteOk(r) ==
    /\ users' = Filter(r.users, r.id)
    /\ toasts' = <<[kind |-> "success", text |-> "User deleted successfully!"]>>
    /\ lastOp' = [op |-> "deleteOk", id |-> r.id]
    /\ deletes' = Settle(deletes, r)
    /\ UNCHANGED <<error, showForm, selectedUser, currentPage, formData,
                   formError, loadPending, submits, requests>>

\* handleDeleteUser after its await, catch branch
DeleteFail(r) ==
    /\ \E msg \in ErrMessages :
        /\ error' = msg
        /\ lastOp' = [op |-> "deleteFail", id |-> r.id, msg |-> msg]
    /\ toasts' = <<[kind |-> "error", text |-> "Failed to delete user."]>>
    /\ deletes' = Settle(deletes, r)
    /\ UNCHANGED <<users, showForm, selectedUser, currentPage, formData,
                   formError, loadPending, submits, requests>>

\* paginate(pageNumber)
paginate(pageNumber) ==
    /\ currentPage' = pageNumber
    /\ toasts' = <<>>
    /\ UNCHANGED <<users, error, showForm, selectedUser, formData, formError,
                   loadPending, deletes, submits, requests>>

\* Prev button
PrevPage ==
    /\ ~PrevDisabled
    /\ paginate(currentPage - 1)
    /\ lastOp' = [op |-> "other"]

\* Next button
NextPage ==
    /\ ~NextDisabled
    /\ currentPage < MaxPage \/ currentPage < Ceil(Len(users), usersPerPage)
    /\ paginate(currentPage + 1)
    /\ lastOp' = [op |-> "other"]

SubmitResolved == \E r \in BagToSet(submits) : SubmitOk(r)
SubmitRejected == \E r \in BagToSet(submits) : SubmitFail(r)
DeleteResolved == \E r \in BagToSet(deletes) : DeleteOk(r)
DeleteRejected == \E r \in BagToSet(deletes) : DeleteFail(r)

Next ==
    \/ LoadOk
    \/ LoadFail
    \/ BeginAdd
    \/ BeginEdit
    \/ Change
    \/ SubmitInvalid
    \/ SubmitRequest
    \/ SubmitResolved
    \/ SubmitRejected
    \/ Cancel
    \/ DeleteRequest
    \/ DeleteResolved
    \/ DeleteRejected
    \/ PrevPage
    \/ NextPage

Spec == Init /\ [][Next]_vars

\* ------------------------------------------------ pagination specification
\* The page after GET /users answered with a collection of any length up to
\* MaxTotal, explored with the Prev and Next buttons.
LoadedUsers(n) == [i \in 1..n |-> MkUser(i, "Ann Lee")]

InitPaging ==
    /\ \E n \in 0..MaxTotal : users = LoadedUsers(n)
    /\ error = NoError
    /\ showForm = FALSE
    /\ selectedUser = Null
    /\ currentPage = 1
    /\ formData = EmptyDraft
    /\ formError = NoError
    /\ loadPending = FALSE
    /\ deletes = EmptyBag
    /\ submits = EmptyBag
    /\ requests = 0
    /\ toasts = <<>>
    /\ lastOp = [op |-> "loadOk", data |-> users]

NextPaging == PrevPage \/ NextPage

SpecPaging == InitPaging /\ [][NextPaging]_vars

\* ------------------------------------------------------- row specification
\* The Row component renders one record.  A name is a sequence of characters
\* here, so that splitting it is computed as the code computes it.
Chars == {"A", "B", " "}
Names == UNION {[1..n -> Chars] : n \in 0..MaxNameLen}

\* index of the first occurrence of sep in s, 0 when there is none
RECURSIVE IndexOf(_, _)
IndexOf(s, sep) ==
    IF s = <<>> THEN 0
    ELSE IF Head(s) = sep THEN 1
         ELSE LET k == IndexOf(Tail(s), sep) IN IF k = 0 THEN 0 ELSE k + 1

\* String.prototype.split(sep) for a one-character separator: every
\* occurrence separates, and a string without one is the only part.
RECURSIVE Split(_, _)
Split(s, sep) ==
    LET k == IndexOf(s, sep)
    IN IF k = 0 THEN <<s>>
       ELSE <<SubSeq(s, 1, k - 1)>> \o Split(SubSeq(s, k + 1, Len(s)), sep)

\* const nameParts = (userData.name || "").split(" ")
nameParts(userData) == Split(userData.name, " ")

\* nameParts[0] || ""
firstName(userData) == nameParts(userData)[1]

\* nameParts[1] || "": undefined when there is no second part
lastName(userData) ==
    IF Len(nameParts(userData)) >= 2 THEN nameParts(userData)[2] ELSE <<>>

\* User: the cells of the row of a visible record
RenderRow ==
    /\ \E k \in 1..Len(currentUsers) :
        LET userData == currentUsers[k] IN
        lastOp' = [op |-> "row",
                   id |-> userData.id,
                   name |-> userData.name,
                   firstName |-> firstName(userData),
                   lastName |-> lastName(userData),
                   email |-> userData.email,
                   department |-> userData.company.name]
    /\ UNCHANGED <<users, error, showForm, selectedUser, currentPage, formData,
                   formError, loadPending, deletes, submits, requests, toasts>>

InitName ==
    /\ \E n \in Names : users = <<MkUser(1, n)>>
    /\ error = NoError
    /\ showForm = FALSE
    /\ selectedUser = Null
    /\ currentPage = 1
    /\ formData = EmptyDraft
    /\ formError = NoError
    /\ loadPending = FALSE
    /\ deletes = EmptyBag
    /\ submits = EmptyBag
    /\ requests = 0
    /\ toasts = <<>>
    /\ lastOp = [op |-> "loadOk", data |-> users]

NextName == RenderRow

SpecName == InitName /\ [][NextName]_vars

\* ------------------------------------------------------------- properties
HasId(us, id) == \E i \in 1..Len(us) : us[i].id = id
IsErrorToast(t) == t.kind = "error"
IsSuccessToast(t) == t.kind = "success"
HasEmptyField(fd) == fd.name = "" \/ fd.email = "" \/ fd.company.name = ""

\* C1: in every reachable state no two records of the collection have the same
\* id (Load responses being id-unique).
C1_IdsUnique ==
    \A i, j \in 1..Len(users) : i # j => users[i].id # users[j].id

\* C2: when a create response is applied, the collection afterwards is the
\* collection held immediately before with exactly one record appended at the
\* end, whose id is the maximum id held immediately before plus 1.
C2_CreateAppendsToCurrent ==
    [][lastOp'.op = "createOk" =>
        /\ Len(users') = Len(users) + 1
        /\ SubSeq(users', 1, Len(users)) = users
        /\ users # <<>> =>
              \E m \in Ids(users) :
                  /\ \A x \in Ids(users) : x <= m
                  /\ users'[Len(users')].id = m + 1]_vars

\* C3: when an update response is applied, the collection is as long as it
\* was immediately before and holds the returned record.
C3_UpdateKeepsLengthAndHoldsRecord ==
    [][lastOp'.op = "updateOk" =>
        /\ Len(users') = Len(users)
        /\ \E i \in 1..Len(users') : users'[i] = lastOp'.data]_vars

\* C4: when a delete response is applied, the collection afterwards is the
\* collection held immediately before without the records of that id, the
\* others unchanged and in the same order.
C4_DeleteRemovesFromCurrent ==
    [][lastOp'.op = "deleteOk" =>
        users' = SelectSeq(users, LAMBDA u : u.id # lastOp'.id)]_vars

\* C5: a rejected Delete leaves the collection exactly as it was, stores an
\* error message and emits one error notification; issuing the Delete request
\* removes nothing either (no optimistic removal).
C5_DeleteRejectedKeepsCollection ==
    [][/\ lastOp'.op = "deleteFail" =>
            /\ users' = users
            /\ error' \in ErrMessages
            /\ Len(toasts') = 1 /\ IsErrorToast(toasts'[1])
       /\ lastOp'.op = "deleteClick" =>
            /\ users' = users
            /\ toasts' = <<>>]_vars

C5_Witness ==
    /\ lastOp.op = "deleteFail"
    /\ HasId(users, lastOp.id)
    /\ error \in ErrMessages
    /\ Len(users) = 2

\* C6: a Submit of a draft with an empty name, email or department issues no
\* request, sets the form's validation error, leaves the form open and leaves
\* the collection, the selection and the page pointer unchanged.
C6_InvalidSubmitIssuesNothing ==
    [][(lastOp'.op \in {"submit", "submitInvalid"} /\ HasEmptyField(formData)) =>
        /\ submits' = submits
        /\ deletes' = deletes
        /\ requests' = requests
        /\ loadPending' = loadPending
        /\ formError' = "All fields are required."
        /\ showForm'
        /\ formData' = formData
        /\ users' = users
        /\ selectedUser' = selectedUser
        /\ currentPage' = currentPage]_vars

C6_Witness ==
    /\ lastOp.op = "submitInvalid"
    /\ showForm
    /\ formError = "All fields are required."
    /\ formData.name # "" /\ formData.email # "" /\ formData.company.name = ""

\* C7: in every reachable state the page pointer lies in [1, ceil(total/13)].
C7_PageInRange ==
    /\ currentPage >= 1
    /\ currentPage <= Ceil(Len(users), 13)

\* C8: for a non-empty collection and a page p in [1, ceil(total/13)], the
\* visible slice is the records at zero-based offsets
\* [(p-1)*13, min(p*13, total)) in collection order: at most 13 records,
\* exactly 13 before the last page, and total mod 13 (13 when that is 0) on
\* the last page.
C8_VisibleSlice ==
    LET total == Len(users)
        last == Ceil(total, 13)
        p == currentPage
        from == (p - 1) * 13
        to == Min(p * 13, total)
    IN (total > 0 /\ p \in 1..last) =>
        /\ currentUsers = [i \in 1..(to - from) |-> users[from + i]]
        /\ Len(currentUsers) <= 13
        /\ p < last => Len(currentUsers) = 13
        /\ p = last => Len(currentUsers) = IF total % 13 = 0 THEN 13 ELSE total % 13

C8_Witness ==
    /\ Len(users) = 27
    /\ currentPage = 3
    /\ Len(currentUsers) = 1
    /\ currentUsers[1].id = 27

\* C9: a rejected create or update changes neither the collection, the
\* selection, the draft nor whether the form is open, and sets the error of
\* the form that issued it; when it is the request of the Submit just made
\* (nothing done in between), the form is open with the submitted draft and
\* the same mode, so that a new Submit issues the same kind of request with
\* the same body.
C9_RejectedSubmitKeepsDraft ==
    [][lastOp'.op = "submitFail" =>
        /\ users' = users
        /\ selectedUser' = selectedUser
        /\ showForm' = showForm
        /\ formData' = formData
        /\ lastOp'.live => formError' \in ErrMessages
        /\ (lastOp.op = "submit" /\ BagCardinality(submits) = 1) =>
              /\ showForm'
              /\ formError' \in ErrMessages
              /\ formData' = lastOp'.body
              /\ ~HasEmptyField(formData')
              /\ (selectedUser' # Null) = (lastOp'.method = "put")]_vars

C9_Witness ==
    /\ lastOp.op = "submitFail"
    /\ lastOp.method = "put"
    /\ showForm
    /\ selectedUser # Null
    /\ formError \in ErrMessages
    /\ formData = lastOp.body
    /\ formData.name = "Bob Ray"

\* C10: Cancel issues no request, closes the form, clears the selection and
\* leaves the collection and the page pointer unchanged; a form that Begin-Add
\* opens starts with an all-empty draft.
C10_CancelDiscards ==
    [][/\ lastOp'.op = "cancel" =>
            /\ ~showForm'
            /\ selectedUser' = Null
            /\ users' = users
            /\ currentPage' = currentPage
            /\ requests' = requests
            /\ deletes' = deletes
            /\ BagCardinality(submits') = BagCardinality(submits)
            /\ loadPending' = loadPending
       /\ (lastOp'.op = "beginAdd" /\ ~showForm) =>
            /\ showForm'
            /\ selectedUser' = Null
            /\ formError' = NoError
            /\ formData'.name = "" /\ formData'.email = "" /\ formData'.company.name = ""]_vars

C10_Witness ==
    /\ lastOp.op = "cancel"
    /\ ~showForm
    /\ selectedUser = Null
    /\ users # <<>>
    /\ BagCardinality(submits) = 1

\* C11: a failed Load leaves the collection exactly as it was, records an
\* error message and emits one failure notification; a successful Load makes
\* the collection the returned sequence, in the returned order.
C11_LoadOutcome ==
    [][/\ lastOp'.op = "loadFail" =>
            /\ users' = users
            /\ error' \in ErrMessages
            /\ Len(toasts') = 1 /\ IsErrorToast(toasts'[1])
       /\ lastOp'.op = "loadOk" =>
            /\ lastOp'.data \in LoadResponses
            /\ Len(users') = Len(lastOp'.data)
            /\ \A i \in 1..Len(users') : users'[i] = lastOp'.data[i]
            /\ toasts' = <<>>]_vars

C11_Witness ==
    /\ lastOp.op = "loadFail"
    /\ users # <<>>
    /\ error \in ErrMessages
    /\ ~loadPending

\* C12: immediately after the response to a successful create or update has
\* been handled, the form is closed and no record is selected, and exactly one
\* notification, a success, was emitted for it.
C12_SuccessClosesForm ==
    [][lastOp'.op \in {"createOk", "updateOk"} =>
        /\ ~showForm'
        /\ selectedUser' = Null
        /\ Len(toasts') = 1 /\ IsSuccessToast(toasts'[1])]_vars

C12_Witness ==
    /\ lastOp.op = "updateOk"
    /\ ~showForm
    /\ selectedUser = Null
    /\ Len(toasts) = 1 /\ IsSuccessToast(toasts[1])
    /\ HasId(users, lastOp.data.id)

\* C13: the row's first name is the part of the name before its first space,
\* and its last name is the whole remainder after that first space (empty
\* when the name has no space).
C13_NameSplitOnFirstSpace ==
    lastOp.op = "row" =>
        LET name == lastOp.name
            k == IndexOf(name, " ")
        IN IF k = 0
           THEN lastOp.firstName = name /\ lastOp.lastName = <<>>
           ELSE /\ lastOp.firstName = SubSeq(name, 1, k - 1)
                /\ lastOp.lastName = SubSeq(name, k + 1, Len(name))

\* C14: two requests in flight together that both succeed both take effect.
\* Two delete responses handled one right after the other (both requests were
\* in flight together) leave neither id in the collection; a delete response
\* handled right after a create response (the Add completed while the Delete
\* was in flight) leaves the appended record in the collection.
C14_OverlappingRequestsBothApply ==
    [][/\ (lastOp.op = "deleteOk" /\ lastOp'.op = "deleteOk") =>
            /\ ~HasId(users', lastOp.id)
            /\ ~HasId(users', lastOp'.id)
       /\ (lastOp.op = "createOk" /\ lastOp'.op = "deleteOk"
             /\ users[Len(users)].id # lastOp'.id) =>
            \E i \in 1..Len(users') : users'[i] = users[Len(users)]]_vars

\* C15: in every reachable state every record of the collection has an
\* integer id (-Infinity is none).
C15_IdsAreIntegers ==
    \A i \in 1..Len(users) : users[i].id \in Int /\ users[i].id # NegInf

\* C16: the response to an update request (put, issued with a record
\* selected) is applied by replacing the entries of the returned id in the
\* collection its handler holds and never by appending; the response to a
\* create request (post, issued with no selection) is applied by appending one
\* record to it and never by replacing.
C16_RequestKindMatchesBranch ==
    [][lastOp'.op \in {"createOk", "updateOk"} =>
        LET held == lastOp'.captured
            data == lastOp'.data
        IN /\ (lastOp'.method = "put") = (lastOp'.op = "updateOk")
           /\ (lastOp'.method = "post") = (lastOp'.op = "createOk")
           /\ lastOp'.method = "put" =>
                /\ Len(users') = Len(held)
                /\ \A i \in 1..Len(held) :
                      users'[i] = IF held[i].id = data.id THEN data ELSE held[i]
           /\ lastOp'.method = "post" =>
                /\ Len(users') = Len(held) + 1
                /\ SubSeq(users', 1, Len(held)) = held
                /\ users'[Len(users')].name = data.name]_vars

C16_Witness ==
    /\ lastOp.op = "updateOk"
    /\ lastOp.method = "put"
    /\ Len(users) = 2
    /\ \E i \in 1..Len(users) : users[i] = lastOp.data /\ users[i].name = "Bob Ray"

\* C17: in every reachable state, a record is selected for editing only while
\* the form is open.
C17_SelectionImpliesFormOpen ==
    selectedUser # Null => showForm

C17_Witness ==
    /\ lastOp.op = "beginEdit"
    /\ selectedUser # Null
    /\ showForm
    /\ BagCardinality(submits) = 1
====
